---- MODULE Spec2Model ----
(***************************************************************************)
(* Model of the streaming JSON scanner of src/src/lib.rs.                  *)
(*                                                                         *)
(* Bytes are their numeric values (b'{' is 123).  Strings (the path and    *)
(* value buffers) are sequences of chars, a char being its code point;     *)
(* `c as char` of a byte keeps the number, and a code point of 128 and     *)
(* above takes two bytes of the String's UTF-8 storage.                    *)
(*                                                                         *)
(* The recursion of the parser is a stack of frames, one per active call;  *)
(* every action is one iteration of the loop of the function on top of the *)
(* stack: one getc and the match arm taken, up to the next getc.  The byte *)
(* source is read on demand: `input` is what it has supplied so far.       *)
(***************************************************************************)
EXTENDS Integers, Sequences, FiniteSets, TLC

VARIABLES
    input,   \* bytes the reader has supplied so far (ghost: the document read)
    eof,     \* the reader has reported end-of-input
    ungets,  \* JsonParser.ungets
    path,    \* JsonParser.path
    value,   \* JsonParser.value
    events,  \* the calls of on_value so far, in order
    stack,   \* the active calls, json_parse's read_value first
    err,     \* the Err being returned through the active calls, or NoErr
    result,  \* what json_parse returned, or NoResult
    pc,      \* "init", "parsing", "done"
    returns, \* ghost: the calls that have returned Ok so far
    getcs    \* ghost: the calls of getc so far

vars == <<input, eof, ungets, path, value, events, stack, err, result, pc, returns, getcs>>

\* ---------------------------------------------------------------- bounds
MaxLen == 5

\* The bytes the reader may supply:  { } [ ] , : " \ 1 space 0x80 n u l
Alphabet == {123, 125, 91, 93, 44, 58, 34, 92, 49, 32, 128, 110, 117, 108}

\* ------------------------------------------------------------- constants
NoByte   == 0 - 1      \* getc returned Ok(None)
IoError  == 0 - 2      \* getc returned Err(e)
NoErr    == "none"
NoResult == "none"

Rue  == <<114, 117, 101>>
Alse == <<97, 108, 115, 101>>
Ull  == <<117, 108, 108>>

\* ------------------------------------------------------- String helpers
\* bytes a char takes in a String (UTF-8), for the code points a u8 gives
Utf8Len(ch) == IF ch < 128 THEN 1 ELSE 2

RECURSIVE StrLen(_)
\* String::len: the length in bytes
StrLen(p) == IF p = <<>> THEN 0 ELSE Utf8Len(Head(p)) + StrLen(Tail(p))

\* String::is_char_boundary
IsCharBoundary(p, n) ==
    \E k \in 0..Len(p) : StrLen(SubSeq(p, 1, k)) = n

\* String::truncate on a char boundary (or beyond the end: no effect)
Truncate(p, n) ==
    IF n > StrLen(p) THEN p
    ELSE LET k == CHOOSE k \in 0..Len(p) : StrLen(SubSeq(p, 1, k)) = n
         IN SubSeq(p, 1, k)

\* String::truncate panics when new_len is inside a char
TruncatePanics(p, n) == n <= StrLen(p) /\ ~IsCharBoundary(p, n)

RECURSIVE ToDecimal(_)
\* format!("{}", i) of a usize
ToDecimal(i) ==
    IF i < 10 THEN <<48 + i>> ELSE Append(ToDecimal(i \div 10), 48 + (i % 10))

\* format!("[{}]", i)
FormatIndex(i) == <<91>> \o ToDecimal(i) \o <<93>>

\* ------------------------------------------------------ byte classes
IsWhitespace(c) == c \in {32, 9, 13, 10}

IsNumberStart(c) == (c >= 48 /\ c <= 57) \/ c = 45

IsNumberChar(c) ==
    ~(~(c >= 48 /\ c <= 57) /\ c # 46 /\ c # 45 /\ c # 43 /\ c # 101 /\ c # 69)

\* ------------------------------------------------------------- frames
Frame(fn, start, path0) ==
    [fn |-> fn,
     start |-> start,         \* ghost: position in input of the construct's first byte
     path0 |-> path0,         \* ghost: the path buffer when the call was made
     post |-> <<>>,           \* read_value: statements of the arm still to run
     emitted |-> 0,           \* read_value (ghost): on_value calls made by this call
     after |-> 0,             \* read_value (ghost): bytes taken after its first on_value
     in_escape |-> FALSE,     \* read_string
     i |-> 0,                 \* read_string, read_literal, read_array
     path_arg |-> FALSE,      \* read_string: the parameter `path`
     s |-> <<>>,              \* read_literal: the parameter `s`
     reading_value |-> FALSE, \* read_array
     l |-> 0,                 \* read_array
     key_len |-> 0,           \* read_object
     key_read |-> FALSE,      \* read_object (ghost): a key was read since `{` or the last `,`
     colon_seen |-> FALSE]    \* read_object (ghost): the `:` of that key was taken

Top == stack[Len(stack)]

Pop(st) == SubSeq(st, 1, Len(st) - 1)

\* the program state the operations below transform
Cur ==
    [ungets |-> ungets, path |-> path, value |-> value, events |-> events,
     stack |-> stack, err |-> err, result |-> result, pc |-> pc,
     returns |-> returns,
     getcs |-> getcs,
     len |-> Len(input)]      \* ghost: bytes the reader has supplied

Apply(n) ==
    /\ ungets' = n.ungets
    /\ path' = n.path
    /\ value' = n.value
    /\ events' = n.events
    /\ stack' = n.stack
    /\ err' = n.err
    /\ result' = n.result
    /\ pc' = n.pc
    /\ returns' = n.returns
    /\ getcs' = n.getcs

\* ghost: first bytes of the arrays and objects being read
OpenStarts(st) ==
    {st[k].start : k \in {j \in 1..Len(st) : st[j].fn \in {"read_array", "read_object"}}}

\* ---------------------------------------------------------------- getc
\* Popped with getc looking at the top of ungets and leaving it there
PoppedPeek == ungets

\* ungets after the pop of getc
Popped == IF ungets # <<>> THEN SubSeq(ungets, 1, Len(ungets) - 1) ELSE ungets

\* getc returns c: the top of ungets, else what read_exact gives
getc(c) ==
    IF ungets # <<>>
    THEN c = ungets[Len(ungets)] /\ UNCHANGED <<input, eof>>
    ELSE \/ /\ c \in Alphabet
            /\ ~eof
            /\ Len(input) < MaxLen
            /\ input' = Append(input, c)
            /\ eof' = eof
         \/ /\ c = NoByte
            /\ eof' = TRUE
            /\ input' = input
         \/ /\ c = IoError
            /\ ~eof
            /\ UNCHANGED <<input, eof>>

GetcResults == Alphabet \cup {NoByte, IoError}

\* ghost: the bytes consumed so far, which is the position in input of the
\* byte getc has just returned
Pos(s) == s.len - Len(s.ungets)

\* -------------------------------------------------------- outcomes
\* return Err(msg), and every `?` on the way up
Raise(s, msg) == [s EXCEPT !.err = msg]

\* a panic aborts the parse
Panic(s) == [s EXCEPT !.result = "panic", !.pc = "done"]

\* (self.on_value)(&self.path, ty, &self.value), made by the read_value on top
OnValue(s, ty) ==
    LET f == s.stack[Len(s.stack)]
    IN [s EXCEPT !.events = Append(@, [path |-> s.path, type |-> ty, value |-> s.value,
                                       start |-> f.start,
                                       open |-> OpenStarts(s.stack)]),
                 !.stack[Len(s.stack)].emitted = @ + 1]

Op(op, fn, lit, ty) == [op |-> op, fn |-> fn, s |-> lit, ty |-> ty]

\* ObjectArm with the value buffer cleared as the arm of b'"' does
ObjectArmClearing ==
    <<Op("clear", "", <<>>, ""), Op("call", "read_object", <<>>, ""),
      Op("on_value", "", <<>>, "Object")>>

\* the arm of b'{'
ObjectArm == <<Op("call", "read_object", <<>>, ""), Op("on_value", "", <<>>, "Object")>>

\* ArrayArm with the handler called before the array is read
ArrayArmEmitFirst ==
    <<Op("on_value", "", <<>>, "Array"), Op("call", "read_array", <<>>, "")>>

\* the arm of b'['
ArrayArm == <<Op("call", "read_array", <<>>, ""), Op("on_value", "", <<>>, "Array")>>

\* the statements of read_value's match arm for byte c
Arm(c) ==
    IF c = 123 THEN ObjectArm
    ELSE IF c = 91 THEN ArrayArm
    ELSE IF IsNumberStart(c) THEN
        <<Op("ungetc", "", <<>>, ""), Op("call", "read_number", <<>>, ""),
          Op("on_value", "", <<>>, "Number")>>
    ELSE IF c = 34 THEN
        <<Op("clear", "", <<>>, ""), Op("call", "read_string", <<>>, ""),
          Op("on_value", "", <<>>, "String")>>
    ELSE IF c = 116 THEN <<Op("call", "read_literal", Rue, ""), Op("on_value", "", <<>>, "True")>>
    ELSE IF c = 102 THEN <<Op("call", "read_literal", Alse, ""), Op("on_value", "", <<>>, "False")>>
    ELSE IF c = 110 THEN <<Op("call", "read_literal", Ull, ""), Op("on_value", "", <<>>, "Null")>>
    ELSE IF IsWhitespace(c) THEN <<>>
    ELSE <<Op("err", "", <<>>, "unexpected char")>>

\* the call o made by the read_value on top of s.stack: the callee's code
\* up to its loop
Enter(o, s) ==
    LET st == s.stack[Len(s.stack)].start
    IN CASE o.fn = "read_object" ->
              [s EXCEPT !.path = Append(@, 46),
                        !.stack = Append(@, Frame("read_object", st, s.path))]
         [] o.fn = "read_array" ->
              [s EXCEPT !.stack = Append(@, [Frame("read_array", st, s.path)
                                               EXCEPT !.reading_value = TRUE])]
         [] o.fn = "read_number" ->
              [s EXCEPT !.value = <<>>,
                        !.stack = Append(@, Frame("read_number", st, s.path))]
         [] o.fn = "read_string" ->
              [s EXCEPT !.stack = Append(@, Frame("read_string", st, s.path))]
         [] o.fn = "read_literal" ->
              [s EXCEPT !.stack = Append(@, [Frame("read_literal", st, s.path) EXCEPT !.s = o.s])]

RECURSIVE Exec(_, _, _)
\* run the statements ops of an arm of the read_value on top of s.stack,
\* up to and including the next call
Exec(ops, s, c) ==
    IF ops = <<>> THEN [s EXCEPT !.stack[Len(s.stack)].post = <<>>]
    ELSE LET o == Head(ops)
             r == Tail(ops)
         IN CASE o.op = "ungetc" -> Exec(r, [s EXCEPT !.ungets = Append(@, c)], c)
              [] o.op = "clear" -> Exec(r, [s EXCEPT !.value = <<>>], c)
              [] o.op = "on_value" -> Exec(r, OnValue(s, o.ty), c)
              [] o.op = "call" -> Enter(o, [s EXCEPT !.stack[Len(s.stack)].post = r])
              [] o.op = "err" -> Raise(s, o.ty)

\* ghost: the record of a call that returns Ok(ret)
Returned(s, g, ret) ==
    [fn |-> g.fn, start |-> g.start, end |-> Pos(s), before |-> g.path0,
     after |-> s.path, emitted |-> g.emitted, taken |-> g.after, ret |-> ret,
     key |-> g.path_arg, value |-> s.value]

\* the call on top of s0.stack returns Ok(ret), and its caller goes on up to
\* its next getc
ReturnOk(s0, ret) ==
    LET g == s0.stack[Len(s0.stack)]
        s == [s0 EXCEPT !.stack = Pop(@), !.returns = @ \cup {Returned(s0, g, ret)}]
    IN IF s.stack = <<>> THEN [s EXCEPT !.result = "ok", !.pc = "done"]
       ELSE LET f == s.stack[Len(s.stack)]
            IN CASE f.fn = "read_value" -> Exec(f.post, s, 0)
                 [] f.fn = "read_array" ->
                      [s EXCEPT !.path = Truncate(@, f.l),
                                !.stack[Len(s.stack)].reading_value = FALSE]
                 [] f.fn = "read_object" ->
                      IF g.fn = "read_string"
                      THEN [s EXCEPT !.stack[Len(s.stack)].key_len = ret,
                                     !.stack[Len(s.stack)].key_read = TRUE]
                      ELSE s

\* AfterLoop with read_string returning its count at end-of-input
AfterLoopStringOk(f) ==
    CASE f.fn = "read_value" -> [ok |-> TRUE, ret |-> 0, msg |-> ""]
      [] f.fn = "read_number" -> [ok |-> TRUE, ret |-> 0, msg |-> ""]
      [] f.fn = "read_string" -> [ok |-> TRUE, ret |-> f.i, msg |-> ""]
      [] f.fn = "read_array" -> [ok |-> FALSE, ret |-> 0, msg |-> "unexpected end of array"]
      [] f.fn = "read_object" -> [ok |-> FALSE, ret |-> 0, msg |-> "unexpected end of object"]

\* what a function does when its `while let Some(c)` loop ends at Ok(None)
AfterLoop(f) ==
    CASE f.fn = "read_value" -> [ok |-> TRUE, ret |-> 0, msg |-> ""]
      [] f.fn = "read_number" -> [ok |-> TRUE, ret |-> 0, msg |-> ""]
      [] f.fn = "read_string" -> [ok |-> FALSE, ret |-> 0, msg |-> "unterminated string"]
      [] f.fn = "read_array" -> [ok |-> FALSE, ret |-> 0, msg |-> "unexpected end of array"]
      [] f.fn = "read_object" -> [ok |-> FALSE, ret |-> 0, msg |-> "unexpected end of object"]

EndOfLoop(s) ==
    LET f == s.stack[Len(s.stack)]
        a == AfterLoop(f)
    IN IF a.ok THEN ReturnOk(s, a.ret)
       ELSE Raise(s, a.msg)

\* ------------------------------------------------------------ read_value
read_value(s, c) ==
    LET n == Len(s.stack)
        f == s.stack[n]
        g == [f EXCEPT !.start = Pos(s),
                       !.after = IF f.emitted > 0 THEN @ + 1 ELSE @]
    IN IF c = IoError THEN Raise(s, "io error")
       ELSE IF c = NoByte THEN EndOfLoop(s)
       ELSE Exec(Arm(c), [s EXCEPT !.stack[n] = g], c)

\* ------------------------------------------------------------ read_number
read_number(s, c) ==
    LET f == s.stack[Len(s.stack)]
    IN IF c = IoError THEN Raise(s, "io error")
       ELSE IF c = NoByte THEN EndOfLoop(s)
       ELSE IF ~IsNumberChar(c)
            THEN ReturnOk([s EXCEPT !.ungets = Append(@, c)], 0)
       ELSE [s EXCEPT !.value = Append(@, c)]

\* ------------------------------------------------------------ read_string
read_string(s, c) ==
    LET n == Len(s.stack)
        f == s.stack[n]
    IN IF c = IoError THEN Raise(s, "io error")
       ELSE IF c = NoByte THEN EndOfLoop(s)
       ELSE IF c = 92 THEN [s EXCEPT !.stack[n].in_escape = TRUE]
       ELSE IF c = 34 /\ ~f.in_escape
            THEN ReturnOk(s, f.i)
       ELSE LET t == [s EXCEPT !.stack[n].in_escape = FALSE,
                               !.stack[n].i = @ + 1]
            IN IF f.path_arg THEN [t EXCEPT !.path = Append(@, c)]
               ELSE [t EXCEPT !.value = Append(@, c)]

\* ------------------------------------------------------------ read_literal
read_literal(s, c) ==
    LET n == Len(s.stack)
        f == s.stack[n]
    IN IF c = IoError THEN Raise(s, "io error")
       ELSE IF c = NoByte THEN Raise(s, "unexpected end instead of")
       ELSE IF c # f.s[f.i + 1] THEN Raise(s, "expected but got")
       ELSE IF f.i + 1 = Len(f.s)
            THEN ReturnOk(s, 0)
       ELSE [s EXCEPT !.stack[n].i = @ + 1]

\* ------------------------------------------------------------ read_array
read_array(s, c) ==
    LET n == Len(s.stack)
        f == s.stack[n]
    IN IF c = IoError THEN Raise(s, "io error")
       ELSE IF c = NoByte THEN EndOfLoop(s)
       ELSE IF c = 93 THEN ReturnOk(s, 0)
       ELSE IF c = 44 THEN [s EXCEPT !.stack[n].i = @ + 1,
                                     !.stack[n].reading_value = TRUE]
       ELSE IF IsWhitespace(c) THEN s
       ELSE IF ~f.reading_value THEN Raise(s, "invalid char")
       ELSE [s EXCEPT !.ungets = Append(@, c),
                      !.path = @ \o FormatIndex(f.i),
                      !.stack = Append([@ EXCEPT ![n].l = StrLen(s.path)],
                                       Frame("read_value", Pos(s),
                                             s.path \o FormatIndex(f.i)))]

\* ------------------------------------------------------------ read_object
\* ObjectCloseLen that leaves the '.' of the object in the path
ObjectCloseLenKeepDot(len, key_len) == len - key_len

\* self.path.len() - key_len - 1
ObjectCloseLen(len, key_len) == len - key_len - 1

\* self.path.truncate(new_len) where new_len was computed in usize: below
\* zero the subtraction panics (overflow checks on) or wraps to a length
\* beyond the end (overflow checks off)
TruncatePath(s, new_len, wrap) ==
    IF new_len < 0 THEN (IF wrap THEN s ELSE Panic(s))
    ELSE IF TruncatePanics(s.path, new_len) THEN Panic(s)
    ELSE [s EXCEPT !.path = Truncate(@, new_len)]

read_object(s, c, wrap) ==
    LET n == Len(s.stack)
        f == s.stack[n]
    IN IF c = IoError THEN Raise(s, "io error")
       ELSE IF c = NoByte THEN EndOfLoop(s)
       ELSE IF c = 125 THEN
            LET t == TruncatePath(s, ObjectCloseLen(StrLen(s.path), f.key_len), wrap)
            IN IF t.pc = "done" THEN t
               ELSE ReturnOk(t, 0)
       ELSE IF c = 34 THEN
            IF f.key_len # 0 THEN Raise(s, "expecting a ':' after")
            ELSE [s EXCEPT !.stack = Append(@, [Frame("read_string", Pos(s), s.path)
                                                  EXCEPT !.path_arg = TRUE])]
       ELSE IF c = 58 THEN
            IF f.key_len = 0 THEN Raise(s, "expecting a key before ':'")
            ELSE [s EXCEPT !.stack = Append([@ EXCEPT ![n].colon_seen = TRUE],
                                            Frame("read_value", Pos(s), s.path))]
       ELSE IF c = 44 THEN
            LET t == TruncatePath(s, StrLen(s.path) - f.key_len, wrap)
            IN IF t.pc = "done" THEN t
               ELSE [t EXCEPT !.stack[n].key_len = 0,
                              !.stack[n].key_read = FALSE,
                              !.stack[n].colon_seen = FALSE]
       ELSE IF IsWhitespace(c) THEN s
       ELSE Raise(s, "unexpected char")

\* ---------------------------------------------------------------- `?`
\* Try with read_value dropping the Err of its callee and going on
TryIgnoringErr(s) ==
    LET f == s.stack[Len(s.stack)]
    IN IF f.fn = "read_value" THEN Exec(f.post, [s EXCEPT !.err = NoErr], 0) ELSE s

\* the caller on top of s.stack receives the callee's Err through `?`:
\* it returns that Err in turn
Try(s) == s

\* ------------------------------------------------------------- actions
\* JsonParser::new
Init ==
    /\ input = <<>>
    /\ eof = FALSE
    /\ ungets = <<>>
    /\ path = <<36>>
    /\ value = <<>>
    /\ events = <<>>
    /\ stack = <<>>
    /\ err = NoErr
    /\ result = NoResult
    /\ pc = "init"
    /\ returns = {}
    /\ getcs = 0

\* json_parse calls read_value
JsonParse ==
    /\ pc = "init"
    /\ stack' = <<Frame("read_value", 0, path)>>
    /\ pc' = "parsing"
    /\ UNCHANGED <<input, eof, ungets, path, value, events, err, result, returns, getcs>>

Running(fn) == pc = "parsing" /\ err = NoErr /\ Top.fn = fn

\* the state in which the match arm runs: the byte c popped or read
AfterGetc(c) ==
    [Cur EXCEPT !.ungets = Popped,
                !.getcs = @ + 1,
                !.len = IF ungets = <<>> /\ c \in Alphabet THEN @ + 1 ELSE @]

ReadValue ==
    /\ Running("read_value")
    /\ \E c \in GetcResults :
         getc(c) /\ Apply(read_value(AfterGetc(c), c))

ReadNumber ==
    /\ Running("read_number")
    /\ \E c \in GetcResults : getc(c) /\ Apply(read_number(AfterGetc(c), c))

ReadString ==
    /\ Running("read_string")
    /\ \E c \in GetcResults : getc(c) /\ Apply(read_string(AfterGetc(c), c))

ReadLiteral ==
    /\ Running("read_literal")
    /\ \E c \in GetcResults : getc(c) /\ Apply(read_literal(AfterGetc(c), c))

ReadArray ==
    /\ Running("read_array")
    /\ \E c \in GetcResults :
         getc(c) /\ Apply(read_array(AfterGetc(c), c))

ReadObject ==
    /\ Running("read_object")
    /\ \E c \in GetcResults, wrap \in BOOLEAN :
         getc(c) /\ Apply(read_object(AfterGetc(c), c, wrap))

RECURSIVE Unwind(_)
\* the call on top of s.stack returns s.err, and so does every caller
\* through its `?`; out of json_parse the Err is the result
Unwind(s) ==
    LET t == [s EXCEPT !.stack = Pop(@)]
    IN IF t.stack = <<>> THEN [t EXCEPT !.result = s.err, !.pc = "done"]
       ELSE LET u == Try(t)
            IN IF u.err = NoErr THEN u ELSE Unwind(u)

Propagate ==
    /\ pc = "parsing"
    /\ err # NoErr
    /\ Apply(Unwind(Cur))
    /\ UNCHANGED <<input, eof>>

Next ==
    \/ JsonParse
    \/ ReadValue
    \/ ReadNumber
    \/ ReadString
    \/ ReadLiteral
    \/ ReadArray
    \/ ReadObject
    \/ Propagate

Spec == Init /\ [][Next]_vars

\* json_parse runs on one thread to its return: a step that can be taken is taken
FairSpec == Spec /\ WF_vars(Next)

TypeOK ==
    /\ pc \in {"init", "parsing", "done"}
    /\ Len(input) <= MaxLen
    /\ Len(ungets) <= 1

\* ============================================================== claims
ReadValueFrames == {k \in 1..Len(stack) : stack[k].fn = "read_value"}

Composite == {"Array", "Object"}

EventsAt(p) == {k \in 1..Len(events) : events[k].start = p}

IsError(r) == r \notin {NoResult, "ok", "panic"}

\* C1: a call of read_value reads and emits one value and then returns: no
\* call of read_value, active or returned, has made a second on_value call.
C1_OneValuePerCall ==
    /\ \A k \in ReadValueFrames : stack[k].emitted <= 1
    /\ \A r \in returns : r.fn = "read_value" => r.emitted <= 1

\* C4: every read_value, read_array and read_object that returns Ok leaves the
\* path buffer as it was when the call was made, and a successful json_parse
\* leaves it at "$".
C4_PathRestored ==
    /\ \A r \in returns :
         r.fn \in {"read_value", "read_array", "read_object"} => r.after = r.before
    /\ result = "ok" => path = <<36>>

C6_FirstErrorEnds ==
    [][/\ err # NoErr => events' = events
       /\ (err = NoErr /\ err' # NoErr) =>
            /\ events' = events
            /\ \A k \in 1..Len(stack') :
                 stack'[k].fn # "read_value" => EventsAt(stack'[k].start) = {}]_vars

C6_Witness ==
    /\ pc = "done"
    /\ IsError(result)
    /\ events # <<>>

\* the byte that the getc of this step returns is c
NextByteIs(c) ==
    \/ ungets # <<>> /\ ungets[Len(ungets)] = c
    \/ ungets = <<>> /\ input' = Append(input, c)

\* C7: a `]` that read_array meets while it expects a value after a comma
\* fails the parse with read_array's "invalid char".
C7_TrailingComma ==
    [][(/\ Running("read_array")
        /\ Top.reading_value
        /\ Top.i > 0
        /\ NextByteIs(93)) => err' = "invalid char"]_vars

\* C8: read_value never returns Ok without having emitted a value: at
\* end-of-input with nothing read it fails with "unexpected char".
C8_NoValueIsAnError ==
    /\ \A r \in returns : r.fn = "read_value" => r.emitted > 0
    /\ result = "ok" => events # <<>>

\* C9: end-of-input inside read_string (value or key) fails the parse with
\* "unterminated string", and no String event exists for that string.
C9_UnterminatedString ==
    /\ [][(/\ Running("read_string")
           /\ ungets = <<>>
           /\ eof'
           /\ input' = input) =>
            /\ err' = "unterminated string"
            /\ events' = events]_vars
    /\ [](err = "unterminated string" /\ pc = "parsing" =>
            \A k \in EventsAt(Top.start) : events[k].type # "String")

C9_Witness ==
    /\ pc = "done"
    /\ result = "unterminated string"
    /\ eof
    /\ events # <<>>

\* the call r read an array or object with nothing but whitespace inside
EmptyComposite(r) ==
    /\ r.fn \in {"read_array", "read_object"}
    /\ \A k \in (r.start + 1)..(r.end - 1) : IsWhitespace(input[k])

\* C10: an empty array or object, at top level or nested, has exactly one
\* event, of its own type and with the path it was reached by, and no event
\* was emitted inside it.
C10_EmptyComposite ==
    \A r \in returns :
        EmptyComposite(r) =>
          /\ Cardinality(EventsAt(r.start)) = 1
          /\ \A k \in EventsAt(r.start) :
               /\ events[k].type = (IF r.fn = "read_array" THEN "Array" ELSE "Object")
               /\ events[k].path = r.before
          /\ \A k \in 1..Len(events) : r.start \notin events[k].open

C10_Witness ==
    \E r1, r2 \in returns :
        /\ EmptyComposite(r1) /\ r1.fn = "read_array" /\ Len(r1.before) > 1
        /\ EmptyComposite(r2) /\ r2.fn = "read_object" /\ Len(r2.before) > 1

\* ------------------------------------------------ the JSON grammar
\* The documents C2 and C3 are about, read by the grammar of JSON (RFC 8259)
\* over a byte sequence d: what a well-formed document is and the events its
\* values stand for, with the path of each value as the claims give it.
JsonWs == {32, 9, 10, 13}

JsonDigit == 48..57

JsonHex == (48..57) \cup (65..70) \cup (97..102)

RECURSIVE JsonSkipWs(_, _)
JsonSkipWs(d, i) ==
    IF i <= Len(d) /\ d[i] \in JsonWs THEN JsonSkipWs(d, i + 1) ELSE i

RECURSIVE JsonDigitsEnd(_, _)
\* the first index from i on that holds no digit
JsonDigitsEnd(d, i) ==
    IF i <= Len(d) /\ d[i] \in JsonDigit THEN JsonDigitsEnd(d, i + 1) ELSE i

At(d, i, set) == i <= Len(d) /\ d[i] \in set

\* the index after the number that starts at i, or 0 when there is none
JsonNumberEnd(d, i) ==
    LET a == IF At(d, i, {45}) THEN i + 1 ELSE i
        b == IF At(d, a, {48}) THEN a + 1
             ELSE IF At(d, a, 49..57) THEN JsonDigitsEnd(d, a)
             ELSE 0
        c == IF b = 0 THEN 0
             ELSE IF At(d, b, {46})
                  THEN (IF JsonDigitsEnd(d, b + 1) > b + 1 THEN JsonDigitsEnd(d, b + 1) ELSE 0)
             ELSE b
        e == IF At(d, c + 1, {43, 45}) THEN c + 2 ELSE c + 1
    IN IF c = 0 THEN 0
       ELSE IF At(d, c, {101, 69})
            THEN (IF JsonDigitsEnd(d, e) > e THEN JsonDigitsEnd(d, e) ELSE 0)
       ELSE c

RECURSIVE JsonStringClose(_, _)
\* the index of the quote that closes the string whose content goes on at i,
\* or 0 when the string is not well formed (ASCII content only)
JsonStringClose(d, i) ==
    IF i > Len(d) THEN 0
    ELSE IF d[i] = 34 THEN i
    ELSE IF d[i] = 92 THEN
        IF At(d, i + 1, {34, 92, 47, 98, 102, 110, 114, 116}) THEN JsonStringClose(d, i + 2)
        ELSE IF At(d, i + 1, {117}) /\ \A k \in (i + 2)..(i + 5) : At(d, k, JsonHex)
             THEN JsonStringClose(d, i + 6)
        ELSE 0
    ELSE IF d[i] < 32 \/ d[i] >= 128 THEN 0
    ELSE JsonStringClose(d, i + 1)

JsonLiterals ==
    {[text |-> <<116, 114, 117, 101>>, type |-> "True"],
     [text |-> <<102, 97, 108, 115, 101>>, type |-> "False"],
     [text |-> <<110, 117, 108, 108>>, type |-> "Null"]}

RECURSIVE JsonDecimal(_)
JsonDecimal(i) ==
    IF i < 10 THEN <<48 + i>> ELSE Append(JsonDecimal(i \div 10), 48 + (i % 10))

\* d holds text from index i on
JsonHas(d, i, text) ==
    i + Len(text) - 1 <= Len(d) /\ SubSeq(d, i, i + Len(text) - 1) = text

JsonBad == [ok |-> FALSE, next |-> 0, ev |-> <<>>]

JsonEvent(p, ty, text) == [path |-> p, type |-> ty, text |-> text]

RECURSIVE JsonValue(_, _, _), JsonElements(_, _, _, _), JsonMembers(_, _, _)
\* the value that starts at or after i, with path p: the index after it and
\* the events of its values, children before their composite
JsonValue(d, i0, p) ==
    LET i == JsonSkipWs(d, i0)
    IN IF i > Len(d) THEN JsonBad
       ELSE IF d[i] = 91 THEN
            LET j == JsonSkipWs(d, i + 1)
                r == JsonElements(d, j, p, 0)
            IN IF At(d, j, {93})
               THEN [ok |-> TRUE, next |-> j + 1, ev |-> <<JsonEvent(p, "Array", <<>>)>>]
               ELSE IF r.ok
               THEN [r EXCEPT !.ev = Append(@, JsonEvent(p, "Array", <<>>))]
               ELSE JsonBad
       ELSE IF d[i] = 123 THEN
            LET j == JsonSkipWs(d, i + 1)
                r == JsonMembers(d, j, p)
            IN IF At(d, j, {125})
               THEN [ok |-> TRUE, next |-> j + 1, ev |-> <<JsonEvent(p, "Object", <<>>)>>]
               ELSE IF r.ok
               THEN [r EXCEPT !.ev = Append(@, JsonEvent(p, "Object", <<>>))]
               ELSE JsonBad
       ELSE IF d[i] = 34 THEN
            LET q == JsonStringClose(d, i + 1)
            IN IF q = 0 THEN JsonBad
               ELSE [ok |-> TRUE, next |-> q + 1,
                     ev |-> <<JsonEvent(p, "String", SubSeq(d, i + 1, q - 1))>>]
       ELSE IF d[i] = 45 \/ d[i] \in JsonDigit THEN
            LET q == JsonNumberEnd(d, i)
            IN IF q = 0 THEN JsonBad
               ELSE [ok |-> TRUE, next |-> q,
                     ev |-> <<JsonEvent(p, "Number", SubSeq(d, i, q - 1))>>]
       ELSE IF \E w \in JsonLiterals : JsonHas(d, i, w.text) THEN
            LET w == CHOOSE w \in JsonLiterals : JsonHas(d, i, w.text)
            IN [ok |-> TRUE, next |-> i + Len(w.text), ev |-> <<JsonEvent(p, w.type, <<>>)>>]
       ELSE JsonBad

\* the elements from index idx on of an array, up to its `]`
JsonElements(d, i, p, idx) ==
    LET v == JsonValue(d, i, p \o <<91>> \o JsonDecimal(idx) \o <<93>>)
        j == JsonSkipWs(d, v.next)
        r == JsonElements(d, j + 1, p, idx + 1)
    IN IF ~v.ok THEN JsonBad
       ELSE IF At(d, j, {93}) THEN [v EXCEPT !.next = j + 1]
       ELSE IF At(d, j, {44}) /\ r.ok THEN [r EXCEPT !.ev = v.ev \o @]
       ELSE JsonBad

\* the members of an object, up to its `}`; keys are plain ASCII text
JsonMembers(d, i0, p) ==
    LET i == JsonSkipWs(d, i0)
        q == IF At(d, i, {34}) THEN JsonStringClose(d, i + 1) ELSE 0
        key == SubSeq(d, i + 1, q - 1)
        c == JsonSkipWs(d, q + 1)
        v == JsonValue(d, c + 1, p \o <<46>> \o key)
        j == JsonSkipWs(d, v.next)
        r == JsonMembers(d, j + 1, p)
    IN IF q = 0 \/ (\E k \in 1..Len(key) : key[k] = 92) THEN JsonBad
       ELSE IF ~At(d, c, {58}) THEN JsonBad
       ELSE IF ~v.ok THEN JsonBad
       ELSE IF At(d, j, {125}) THEN [v EXCEPT !.next = j + 1]
       ELSE IF At(d, j, {44}) /\ r.ok THEN [r EXCEPT !.ev = v.ev \o @]
       ELSE JsonBad

\* d is one well-formed value between optional whitespace
JsonDocument(d) ==
    LET v == JsonValue(d, 1, <<36>>)
    IN v.ok /\ JsonSkipWs(d, v.next) = Len(d) + 1

JsonRootIsComposite(d) == At(d, JsonSkipWs(d, 1), {91, 123})

\* the text of events[k] is the text the grammar gives value e
SameText(k, e) ==
    e.type \in {"Number", "String"} /\ (\A n \in 1..Len(e.text) : e.text[n] # 92)
        => events[k].value = e.text

\* the parse is over, the reader has not failed, and what it has supplied is
\* a document (the parse of the document that ends here is this very run)
ParsedDocument ==
    /\ pc = "done"
    /\ result # "io error"
    /\ JsonDocument(input)

EventsAsExpected ==
    LET ev == JsonValue(input, 1, <<36>>).ev
    IN /\ result = "ok"
       /\ Len(events) = Len(ev)
       /\ \A k \in 1..Len(ev) :
            /\ events[k].path = ev[k].path
            /\ events[k].type = ev[k].type
            /\ SameText(k, ev[k])

\* C2: a well-formed document that is an array or an object parses, and the
\* handler receives one event per value, children first, with the path "$"
\* extended by ".key" and "[index]".
C2_NestedPaths ==
    ParsedDocument /\ JsonRootIsComposite(input) => EventsAsExpected

\* C3: a well-formed document that is one scalar parses, and the handler is
\* called once, with path "$", the scalar's type and, for numbers and strings
\* (those without escapes compared), its text.
C3_ScalarDocument ==
    ParsedDocument /\ ~JsonRootIsComposite(input) => EventsAsExpected

\* ------------------------------------------------------------------
\* C12: ungets never holds more than one byte; a byte in ungets is the byte
\* getc returned last, which is the last byte read from the source; and the
\* getc that follows takes it and reads nothing from the source.
C12_OnePushback ==
    /\ [](Len(ungets) <= 1)
    /\ [](ungets # <<>> => input # <<>> /\ ungets[Len(ungets)] = input[Len(input)])
    /\ [][ungets # <<>> /\ getcs' # getcs => input' = input /\ eof' = eof]_vars

\* read_number has pushed its terminator back and the Number is emitted
C12_Witness ==
    /\ pc = "parsing"
    /\ ungets # <<>>
    /\ \E k \in 1..Len(events) : events[k].type = "Number"

\* C13: in read_array a byte other than `]`, `,` and whitespace that comes
\* while no value is expected, and a comma that comes right after a comma,
\* fail the parse with "invalid char".
C13_ArraySequencing ==
    [][(/\ Running("read_array")
        /\ \/ /\ ~Top.reading_value
              /\ \E c \in Alphabet : /\ c \notin {93, 44}
                                     /\ ~IsWhitespace(c)
                                     /\ NextByteIs(c)
           \/ /\ Top.reading_value
              /\ Top.i > 0
              /\ NextByteIs(44))
       => err' = "invalid char"]_vars

\* C14: read_string passes the bytes between the quotes through: the count it
\* returns is the number of those bytes, and the bytes, backslashes
\* included, are what it added to the path (key) or left in value (value).
C14_RawPassthrough ==
    \A r \in returns :
        r.fn = "read_string" =>
            LET raw == SubSeq(input, r.start + 1, r.end - 1)
            IN /\ r.ret = Len(raw)
               /\ r.key => r.after = r.before \o raw
               /\ ~r.key => r.value = raw

RECURSIVE TrailingBackslashes(_)
TrailingBackslashes(d) ==
    IF d # <<>> /\ d[Len(d)] = 92
    THEN 1 + TrailingBackslashes(SubSeq(d, 1, Len(d) - 1))
    ELSE 0

\* C15: while read_string reads, in_escape is set exactly when the byte read
\* last is a backslash that is not itself escaped, that is when the content
\* read so far ends in an odd number of backslashes.
C15_EscapeOneByte ==
    Running("read_string") =>
        (Top.in_escape <=>
            TrailingBackslashes(SubSeq(input, Top.start + 1, Len(input))) % 2 = 1)

\* C16: read_object rejects a `:` exactly when no key string was read since
\* the `{` or the last `,` (the empty key is a key), and rejects a `"`
\* exactly when a key was read and its `:` has not come yet.
C16_KeyThenColon ==
    [][Running("read_object") =>
        /\ NextByteIs(58) =>
              (err' = "expecting a key before ':'" <=> ~Top.key_read)
        /\ NextByteIs(34) =>
              (err' = "expecting a ':' after" <=> Top.key_read /\ ~Top.colon_seen)]_vars

Scalars == {"String", "Number"}

ScalarsBefore(k) == {j \in 1..(k - 1) : events[j].type \in Scalars}

Latest(S) == CHOOSE j \in S : \A i \in S : i <= j

\* C17: the value text of a True, False, Null, Object or Array event is the
\* text of the latest String or Number event before it, and empty when there
\* is none: literals and composites leave the value buffer alone.
C17_ValueKept ==
    \A k \in 1..Len(events) :
        events[k].type \notin Scalars =>
            events[k].value = IF ScalarsBefore(k) = {} THEN <<>>
                              ELSE events[Latest(ScalarsBefore(k))].value

\* an Object, Array or Null event that carries the text of an earlier scalar
C17_Witness ==
    \E k \in 1..Len(events) :
        /\ events[k].type \notin Scalars
        /\ events[k].value # <<>>

\* C18: no parse panics in a truncation; the count read_string(true) returns
\* is the growth of the path in bytes; and read_object leaves the path as it
\* found it.
C18_KeyTruncation ==
    /\ result # "panic"
    /\ \A r \in returns :
          r.fn = "read_string" /\ r.key => r.ret = StrLen(r.after) - StrLen(r.before)
    /\ \A r \in returns :
          r.fn = "read_object" => StrLen(r.after) = StrLen(r.before)

====
